---- MODULE Spec2Model ----
(***************************************************************************)
(* WebSocketChannel (src/nanobot/channels/websocket.py) as a state machine. *)
(*                                                                         *)
(* The channel runs on one asyncio event loop: a task runs without         *)
(* interruption until it suspends in an await, so every action below is    *)
(* the code between two suspension points of one task.  A transmission     *)
(* (websocket.send) on an open connection puts its frame on the wire       *)
(* before the sending task can suspend; on a connection that is no longer  *)
(* open it raises ConnectionClosed.                                        *)
(***************************************************************************)
EXTENDS Integers, Sequences, FiniteSets, TLC

\* ------------------------------------------------------------------ bounds
NumConns == 2      \* connection objects created during one run
MaxEvents == 4     \* what the environment does during one run: calls of
                   \* start(), stop() and send(), connections made, frames
                   \* sent (a connection drops once at most)

\* --------------------------------------------------------------- constants
PolicyViolation == 1008     \* close code of a rejected connection

Conns == 1..NumConns
None == 0
\* id(websocket): CPython hands out the address of the object, so two live
\* objects never share one, and a freed object's id may be handed out again.
ObjIds == 1..NumConns

\* websocket.remote_address[0], or no remote address at all
RemoteAddrs == {"ip1", "none"}
\* config.allow_from: empty (unrestricted) or a list of addresses
AllowLists == {{}, {"ip1"}}

\* The inbound frames a client sends, by the text of the frame.
RawMessages ==
    { "{oops",                                        \* not JSON
      "{\"type\":\"ping\"}",
      "{\"type\":\"user_message\",\"content\":\"hi\"}",
      "{\"type\":\"user_message\",\"content\":\"\"}",
      "{\"type\":\"user_message\"}",
      "{\"type\":\"noop\"}",
      "[]" }                                          \* JSON, but no object

VARIABLES
    enabled,        \* config.enabled
    allow_from,     \* config.allow_from
    running,        \* self._running
    listening,      \* the socket websockets.serve() bound is accepting
    start_pc,       \* where the start() coroutine is
    stop_pc,        \* where the stop() coroutine is
    close_tasks,    \* stop(): the ws.close() coroutines gather() awaits
    connections,    \* self._connections
    session_map,    \* self._session_map, in insertion order: <<ws, session_id>>
    pc,             \* per connection object: where its handler task is
    open,           \* per connection object: the transport can carry frames
    remote,         \* per connection object: its remote address
    objid,          \* per connection object: id(websocket)
    inbox,          \* per connection object: frames received, not yet read
    outbox,         \* per connection object: envelopes transmitted to the client
    received,       \* per connection object: frames the receive loop has read
    close_code,     \* per connection object: code its handler closed it with
    pending,        \* dispatch tasks created and not yet completed
    budget,         \* how many more events the environment may cause
    sent            \* the latest call of send(), n alternating call by call (history)

vars == << enabled, allow_from, running, listening, start_pc, stop_pc,
           close_tasks, connections, session_map, pc, open, remote, objid,
           inbox, outbox, received, close_code, pending, budget, sent >>

\* ------------------------------------------------------------ dict helpers
\* self._session_map is a dict: iteration follows insertion order.
Keys(m) == { m[i][1] : i \in 1..Len(m) }
SetItem(m, k, v) ==
    IF k \in Keys(m)
    THEN [ i \in 1..Len(m) |-> IF m[i][1] = k THEN <<k, v>> ELSE m[i] ]
    ELSE Append(m, <<k, v>>)
Pop(m, k) == SelectSeq(m, LAMBDA e : e[1] # k)

\* ------------------------------------------------------------------- JSON
\* json.loads(raw_message): a decode failure, or the decoded value.  A decoded
\* object is a function from its keys; any other JSON value has no .get().
JsonLoads(raw) ==
    CASE raw = "{\"type\":\"ping\"}" ->
            [ok |-> TRUE, isobj |-> TRUE, obj |-> [type |-> "ping"]]
      [] raw = "{\"type\":\"user_message\",\"content\":\"hi\"}" ->
            [ok |-> TRUE, isobj |-> TRUE,
             obj |-> [type |-> "user_message", content |-> "hi"]]
      [] raw = "{\"type\":\"user_message\",\"content\":\"\"}" ->
            [ok |-> TRUE, isobj |-> TRUE,
             obj |-> [type |-> "user_message", content |-> ""]]
      [] raw = "{\"type\":\"user_message\"}" ->
            [ok |-> TRUE, isobj |-> TRUE, obj |-> [type |-> "user_message"]]
      [] raw = "{\"type\":\"noop\"}" ->
            [ok |-> TRUE, isobj |-> TRUE, obj |-> [type |-> "noop"]]
      [] raw = "[]" ->
            [ok |-> TRUE, isobj |-> FALSE, obj |-> <<>>]
      [] OTHER ->
            [ok |-> FALSE, isobj |-> FALSE, obj |-> <<>>]

\* data.get(key, default)
DictGet(data, key, default) ==
    IF key \in DOMAIN data THEN data[key] ELSE default

\* ------------------------------------------------------------- envelopes
\* json.dumps({...}) of the four envelopes the server transmits.  "timestamp",
\* "reply_to" and "metadata" play no part in routing and are left out; a key
\* an envelope does not carry is the empty string.  cause is history: the
\* connection object and the position in its `received` of the frame that led
\* to the envelope (position 0: no frame did).
Envelope(type, content, session_id, cause) ==
    [type |-> type, content |-> content, session_id |-> session_id,
     cause |-> cause]

\* client_ip of _handle_connection
ClientIp(ra) == IF ra # "none" THEN ra ELSE "unknown"

\* the allowlist test with its `not` lost
NotAllowedInverted(client_ip) ==
    allow_from # {} /\ client_ip \in allow_from

\* the allowlist test of _handle_connection
NotAllowed(client_ip) ==
    allow_from # {} /\ client_ip \notin allow_from

\* a session identifier made of the address alone
SessionIdOfAddress(client_ip, wsid) == <<client_ip, None>>

\* session_id = f"{client_ip}_{id(websocket)}": the address, an underscore and
\* the decimal id; an address holds no underscore, so the text determines
\* both parts and is kept as the pair.
SessionId(client_ip, wsid) == <<client_ip, wsid>>

\* the session identifiers send() is called with from outside the pipeline
SessionIds == { SessionId(ClientIp("ip1"), i) : i \in ObjIds }

\* ------------------------------------------------------------------ state
\* the handler task of a connection object has started and not returned
HandlerRunning(c) == pc[c] \in {"recv", "exc"}

\* the connection objects something still refers to, whose id() is in use
Live == { c \in Conns : HandlerRunning(c) \/ c \in connections
                        \/ c \in Keys(session_map)
                        \/ \E t \in close_tasks : t.ws = c }

\* the ids a new connection object can get: one no live object has, either
\* the id of a freed object or the next address never handed out
FreeIds ==
    LET used == { objid[c] : c \in Conns } \ {None}
        live == { objid[c] : c \in Live }
        fresh == ObjIds \ used
    IN  (used \ live) \cup
        (IF fresh = {} THEN {} ELSE { CHOOSE i \in fresh : \A j \in fresh : i <= j })

Init ==
    /\ enabled \in BOOLEAN
    /\ allow_from \in AllowLists
    /\ running = FALSE
    /\ listening = FALSE
    /\ start_pc = "idle"
    /\ stop_pc = "idle"
    /\ close_tasks = {}
    /\ connections = {}
    /\ session_map = <<>>
    /\ pc = [c \in Conns |-> "new"]
    /\ open = [c \in Conns |-> FALSE]
    /\ remote = [c \in Conns |-> "none"]
    /\ objid = [c \in Conns |-> None]
    /\ inbox = [c \in Conns |-> <<>>]
    /\ outbox = [c \in Conns |-> <<>>]
    /\ received = [c \in Conns |-> <<>>]
    /\ close_code = [c \in Conns |-> None]
    /\ pending = {}
    /\ budget = MaxEvents
    /\ sent = [n |-> 0, chat_id |-> <<"", None>>, target |-> None,
               outcome |-> "", tries |-> 0]

\* --------------------------------------------------------------- clients
\* A client sends a frame; the library queues it for the receive loop.
ClientSend(c, raw) ==
    /\ pc[c] = "recv"
    /\ open[c]
    /\ budget > 0
    /\ inbox' = [inbox EXCEPT ![c] = Append(@, raw)]
    /\ budget' = budget - 1
    /\ UNCHANGED << sent, enabled, allow_from, running, listening, start_pc, stop_pc,
                    close_tasks, connections, session_map, pc, open, remote,
                    objid, outbox, received, close_code, pending >>

\* The peer closes the connection, or the transport fails.
Disconnect(c) ==
    /\ pc[c] = "recv"
    /\ open[c]
    /\ open' = [open EXCEPT ![c] = FALSE]
    /\ UNCHANGED << budget, sent, enabled, allow_from, running, listening, start_pc, stop_pc,
                    close_tasks, connections, session_map, pc, remote, objid,
                    inbox, outbox, received, close_code, pending >>

\* -------------------------------------------------------- session registry
\* a registration that makes no session map entry
RegisterSetOnly(c, session_id) ==
    /\ connections' = connections \cup {c}
    /\ session_map' = session_map

\* self._connections.add(websocket); self._session_map[websocket] = session_id
Register(c, session_id) ==
    /\ connections' = connections \cup {c}
    /\ session_map' = SetItem(session_map, c, session_id)

\* a deregistration that leaves the session map entry behind
DeregisterSetOnly(c) ==
    /\ connections' = connections \ {c}
    /\ session_map' = session_map

\* self._connections.discard(websocket); self._session_map.pop(websocket, None)
Deregister(c) ==
    /\ connections' = connections \ {c}
    /\ session_map' = Pop(session_map, c)

\* the locals client_ip and session_id of the handler of connection object c
ClientIpOf(c) == ClientIp(remote[c])
SessionIdOf(c) == SessionId(ClientIpOf(c), objid[c])

\* ------------------------------------------------------ _handle_connection
\* the status envelope transmitted a second time
WelcomeTwice(c, session_id) ==
    << Envelope("status", "Connected to nanobot", session_id, <<c, 0>>),
       Envelope("status", "Connected to nanobot", session_id, <<c, 0>>) >>

\* await websocket.send(json.dumps({"type": "status", ...}))
Welcome(c, session_id) ==
    << Envelope("status", "Connected to nanobot", session_id, <<c, 0>>) >>

\* The server completes a handshake with a client at remote address ra: a new
\* connection object c with id(c) = wsid, and its handler runs from its start
\* to its first suspension: the allowlist test, and for an admitted connection
\* registration and the status envelope.  `up` is whether the transport still
\* carries frames when the handler transmits.
HandleConnection(c, ra, wsid, up) ==
    /\ listening
    /\ pc[c] = "new"
    /\ \A d \in Conns : d < c => pc[d] # "new"
    /\ wsid \in FreeIds
    /\ budget > 0
    /\ budget' = budget - 1
    /\ remote' = [remote EXCEPT ![c] = ra]
    /\ objid' = [objid EXCEPT ![c] = wsid]
    /\ LET client_ip == ClientIp(ra)
           session_id == SessionId(client_ip, wsid)
       IN  IF NotAllowed(client_ip)
           THEN /\ up
                /\ open' = [open EXCEPT ![c] = FALSE]
                /\ close_code' = [close_code EXCEPT ![c] = PolicyViolation]
                /\ pc' = [pc EXCEPT ![c] = "done"]
                /\ UNCHANGED << connections, session_map, outbox >>
           ELSE /\ Register(c, session_id)
                /\ open' = [open EXCEPT ![c] = up]
                /\ outbox' = [outbox EXCEPT ![c] =
                                 IF up THEN @ \o Welcome(c, session_id) ELSE @]
                /\ pc' = [pc EXCEPT ![c] = IF up THEN "recv" ELSE "exc"]
                /\ UNCHANGED close_code
    /\ UNCHANGED << sent, enabled, allow_from, running, listening, start_pc,
                    stop_pc, close_tasks, inbox, received, pending >>

\* ------------------------------------------------ _handle_incoming_message
\* The task create_task(self._handle_message(...)) starts; conn and seq are
\* history: the connection object and the frame the task was created for.
DispatchTask(client_ip, session_id, content, wsid, c, n) ==
    [sender_id |-> client_ip, chat_id |-> session_id, content |-> content,
     websocket_id |-> wsid, conn |-> c, seq |-> n]

\* the test for empty content left out
HasContentAlways(content) == TRUE

\* `if not content: return`
HasContent(content) == content # ""

\* a ping answered twice
PingReplyTwice(session_id, c, n) ==
    << Envelope("pong", "", session_id, <<c, n>>),
       Envelope("pong", "", session_id, <<c, n>>) >>

\* the pong envelope of a ping
PingReply(session_id, c, n) ==
    << Envelope("pong", "", session_id, <<c, n>>) >>

\* a decode failure that is logged and not reported
DecodeErrorSilent(session_id, c, n) == <<>>

\* except json.JSONDecodeError: the error envelope
DecodeErrorReply(session_id, c, n) ==
    << Envelope("error", "Invalid JSON format", session_id, <<c, n>>) >>

\* a fault that is logged and not reported
FaultSilent(e, session_id, c, n) == <<>>

\* except Exception as e: the error envelope with str(e)
FaultReply(e, session_id, c, n) ==
    << Envelope("error", e, session_id, <<c, n>>) >>

\* What handling one frame asks for: the envelope to transmit (at most one)
\* and the dispatch tasks to create.  c and n are history (see Envelope).
IncomingResult(raw, session_id, client_ip, wsid, c, n) ==
    LET data == JsonLoads(raw)
        nothing == [reply |-> <<>>, tasks |-> {}]
    IN  IF ~data.ok
        THEN [reply |-> DecodeErrorReply(session_id, c, n), tasks |-> {}]
        ELSE IF ~data.isobj
        THEN \* data.get raises AttributeError
             [reply |-> FaultReply("AttributeError", session_id, c, n),
              tasks |-> {}]
        ELSE LET message_type == DictGet(data.obj, "type", "null")
             IN  IF message_type = "user_message"
                 THEN LET content == DictGet(data.obj, "content", "")
                      IN  IF ~HasContent(content)
                          THEN nothing
                          ELSE [reply |-> <<>>,
                                tasks |-> { DispatchTask(client_ip, session_id,
                                                content, wsid, c, n) }]
                 ELSE IF message_type = "ping"
                 THEN [reply |-> PingReply(session_id, c, n), tasks |-> {}]
                 ELSE nothing

\* the dispatch awaited: the handler waits for the pipeline
AfterFrameAwaiting(res, isopen) ==
    IF res.reply # <<>> /\ ~isopen THEN "exc"
    ELSE IF res.tasks # {} THEN "await" ELSE "recv"

\* Where the handler task is once the frame is handled: back in the receive
\* loop, or leaving it with the exception a transmission on a closed
\* connection raised (a failed pong raises again in the error reply).
AfterFrame(res, isopen) ==
    IF res.reply # <<>> /\ ~isopen THEN "exc" ELSE "recv"

\* a receive loop that takes the newest queued frame
NewestFrame(q) == Len(q)

\* `async for raw_message in websocket` yields the frames in the order they
\* arrived: the position in the queue of the frame it yields next
NextFrame(q) == 1

\* the queue without the frame at position i
Without(q, i) == SubSeq(q, 1, i - 1) \o SubSeq(q, i + 1, Len(q))

\* One iteration of `async for raw_message in websocket`.
HandleIncoming(c) ==
    /\ pc[c] = "recv"
    /\ inbox[c] # <<>>
    /\ LET i == NextFrame(inbox[c])
           raw == inbox[c][i]
           n == Len(received[c]) + 1
           res == IncomingResult(raw, SessionIdOf(c), ClientIpOf(c),
                                 objid[c], c, n)
       IN  /\ inbox' = [inbox EXCEPT ![c] = Without(@, i)]
           /\ received' = [received EXCEPT ![c] = Append(@, raw)]
           /\ pending' = pending \cup res.tasks
           /\ outbox' = [outbox EXCEPT ![c] =
                            IF open[c] THEN @ \o res.reply ELSE @]
           /\ pc' = [pc EXCEPT ![c] = AfterFrame(res, open[c])]
    /\ UNCHANGED << sent, enabled, allow_from, running, listening, start_pc, stop_pc,
                    close_tasks, connections, session_map, open, remote,
                    objid, close_code, budget >>

\* The iteration ends on a closed connection (frames still queued may be
\* delivered first or not, as the library decides): except ConnectionClosed
\* or a normal end, then finally.  Frames left unread go with the connection.
LoopExit(c) ==
    /\ pc[c] = "recv"
    /\ ~open[c]
    /\ Deregister(c)
    /\ pc' = [pc EXCEPT ![c] = "done"]
    /\ inbox' = [inbox EXCEPT ![c] = <<>>]
    /\ UNCHANGED << sent, enabled, allow_from, running, listening, start_pc, stop_pc,
                    close_tasks, open, remote, objid, outbox, received,
                    close_code, pending, budget >>

\* The exception of a failed transmission reaches _handle_connection: except,
\* then finally.
Unwind(c) ==
    /\ pc[c] = "exc"
    /\ Deregister(c)
    /\ pc' = [pc EXCEPT ![c] = "done"]
    /\ inbox' = [inbox EXCEPT ![c] = <<>>]
    /\ UNCHANGED << sent, enabled, allow_from, running, listening, start_pc, stop_pc,
                    close_tasks, open, remote, objid, outbox, received,
                    close_code, pending, budget >>

\* The handler task is cancelled while it waits for a frame: CancelledError
\* passes both except clauses, finally runs, and the connection goes with
\* its handler.
Cancel(c) ==
    /\ pc[c] = "recv"
    /\ Deregister(c)
    /\ pc' = [pc EXCEPT ![c] = "done"]
    /\ open' = [open EXCEPT ![c] = FALSE]
    /\ inbox' = [inbox EXCEPT ![c] = <<>>]
    /\ UNCHANGED << sent, enabled, allow_from, running, listening, start_pc, stop_pc,
                    close_tasks, remote, objid, outbox, received,
                    close_code, pending, budget >>

\* ------------------------------------------------------------------- send
\* the scan comparing the address part of the identifiers only
LookupByAddress(chat_id) ==
    LET hits == { i \in 1..Len(session_map) :
                    session_map[i][2][1] = chat_id[1] }
    IN  IF hits = {} THEN None
        ELSE session_map[CHOOSE i \in hits : \A j \in hits : i <= j][1]

\* for ws, session_id in self._session_map.items(): the first match, or None
Lookup(chat_id) ==
    LET hits == { i \in 1..Len(session_map) : session_map[i][2] = chat_id }
    IN  IF hits = {} THEN None
        ELSE session_map[CHOOSE i \in hits : \A j \in hits : i <= j][1]

\* a send() that falls back to the oldest connection
TargetOrOldest(msg) ==
    LET target_ws == Lookup(msg.chat_id)
    IN  IF target_ws # None /\ target_ws \in connections THEN target_ws
        ELSE IF connections = {} THEN None
        ELSE CHOOSE c \in connections : \A d \in connections : c <= d

\* target_ws of send(msg), None when send() returns at the warning
Target(msg) ==
    LET target_ws == Lookup(msg.chat_id)
    IN  IF target_ws = None \/ target_ws \notin connections
        THEN None ELSE target_ws

\* history: the call of send() just made, how it ended and how many times it
\* called target_ws.send()
Sent(msg, target_ws, outcome, tries) ==
    [n |-> 1 - sent.n, chat_id |-> msg.chat_id, target |-> target_ws,
     outcome |-> outcome, tries |-> tries]

\* a failed transmission that is attempted once more
OnSendErrorRetry(target_ws) == [outcome |-> "send_error", retries |-> 1]

\* except Exception as e: logger.error(...), and send() returns
OnSendError(target_ws) == [outcome |-> "send_error", retries |-> 0]

\* send(msg): the whole call.
Send(msg) ==
    LET target_ws == Target(msg)
    IN  IF target_ws = None
        THEN /\ sent' = Sent(msg, None, "no_connection", 0)
             /\ UNCHANGED outbox
        ELSE IF open[target_ws]
        THEN /\ outbox' = [outbox EXCEPT ![target_ws] = Append(@,
                    Envelope("agent_response", msg.content, msg.chat_id,
                             msg.cause))]
             /\ sent' = Sent(msg, target_ws, "sent", 1)
        ELSE /\ LET r == OnSendError(target_ws)
                IN  sent' = Sent(msg, target_ws, r.outcome, 1 + r.retries)
             /\ UNCHANGED outbox

\* An OutboundMessage; cause is history (see Envelope).
OutboundMessage(chat_id, content, cause) ==
    [chat_id |-> chat_id, content |-> content, cause |-> cause]

\* The pipeline finishes a dispatched user message and its reply, addressed
\* to the chat_id of the dispatch, is handed to send().
PipelineReply(d) ==
    /\ d \in pending
    /\ pending' = pending \ {d}
    /\ Send(OutboundMessage(d.chat_id, "reply", <<d.conn, d.seq>>))
    /\ UNCHANGED << enabled, allow_from, running, listening, start_pc, stop_pc,
                    close_tasks, connections, session_map, pc, open, remote,
                    objid, inbox, received, close_code, budget >>

\* send() is called with a message for any session identifier.
RouterSend(chat_id) ==
    /\ budget > 0
    /\ budget' = budget - 1
    /\ Send(OutboundMessage(chat_id, "notice", <<None, 0>>))
    /\ UNCHANGED << enabled, allow_from, running, listening, start_pc, stop_pc,
                    close_tasks, connections, session_map, pc, open, remote,
                    objid, inbox, received, close_code, pending >>

\* ------------------------------------------------------------------- stop
\* the coroutine ws.close() of stop(), and whether it is going to raise
CloseTask(ws, raises) == [ws |-> ws, raises |-> raises]

\* gather() without return_exceptions: the first exception reaches stop()
GatherRaising(tasks) ==
    IF \E t \in tasks : t.raises THEN "raised" ELSE "returned"

\* await asyncio.gather(*close_tasks, return_exceptions=True): exceptions are
\* results, gather() returns
Gather(tasks) == "returned"

\* stop() up to the end of its first suspension.  With no connection there is
\* no suspension and the call runs to its end.  Otherwise gather() starts the
\* ws.close() coroutines one after the other: each starts the closing
\* handshake, after which the connection carries no more frames, and stop()
\* waits for them to end.  The closes of `raised` end with an exception, on
\* a connection that is failing or closed and carries no more frames either.
StopCall(raised) ==
    /\ stop_pc \in {"idle", "returned", "raised"}
    /\ raised \subseteq connections
    /\ budget > 0
    /\ budget' = budget - 1
    /\ running' = FALSE
    /\ IF connections = {}
       THEN /\ connections' = {}
            /\ session_map' = <<>>
            /\ stop_pc' = "returned"
            /\ UNCHANGED << close_tasks, open >>
       ELSE /\ close_tasks' = { CloseTask(c, c \in raised) : c \in connections }
            /\ open' = [c \in Conns |->
                           IF c \in connections THEN FALSE ELSE open[c]]
            /\ stop_pc' = "gather"
            /\ UNCHANGED << connections, session_map >>
    /\ UNCHANGED << sent, enabled, allow_from, listening, start_pc, pc, remote,
                    objid, inbox, outbox, received, close_code, pending >>

\* gather() is done: both collections are cleared and stop() returns
StopFinish ==
    /\ stop_pc = "gather"
    /\ close_tasks' = {}
    /\ IF Gather(close_tasks) = "raised"
       THEN /\ stop_pc' = "raised"
            /\ UNCHANGED << connections, session_map >>
       ELSE /\ connections' = {}
            /\ session_map' = <<>>
            /\ stop_pc' = "returned"
    /\ UNCHANGED << sent, enabled, allow_from, running, listening, start_pc,
                    pc, open, remote, objid, inbox, outbox,
                    received, close_code, pending, budget >>

\* ------------------------------------------------------------------ start
\* start() up to the bind websockets.serve() awaits
StartCall ==
    /\ start_pc \in {"idle", "returned", "raised"}
    /\ budget > 0
    /\ budget' = budget - 1
    /\ IF ~enabled
       THEN /\ start_pc' = "returned"
            /\ UNCHANGED running
       ELSE /\ running' = TRUE
            /\ start_pc' = "bind"
    /\ UNCHANGED << sent, enabled, allow_from, listening, stop_pc, close_tasks,
                    connections, session_map, pc, open, remote, objid, inbox,
                    outbox, received, close_code, pending >>

\* start() is called while an earlier call is serving: the call sets the flag
\* and its bind fails, the port being held by the server of the earlier call,
\* so it raises to its caller like any failed bind.
StartWhileServing ==
    /\ start_pc = "serve"
    /\ enabled
    /\ budget > 0
    /\ budget' = budget - 1
    /\ running' = TRUE
    /\ UNCHANGED << sent, enabled, allow_from, listening, start_pc, stop_pc,
                    close_tasks, connections, session_map, pc, open, remote,
                    objid, inbox, outbox, received, close_code, pending >>

\* The socket is bound and start() goes on to `while self._running` without
\* suspending: it sleeps while the server accepts connections, or, with the
\* flag cleared by a stop() during the bind, leaves the `async with` block
\* before the server has accepted any.
BindOk ==
    /\ start_pc = "bind"
    /\ listening' = running
    /\ start_pc' = IF running THEN "serve" ELSE "closing"
    /\ UNCHANGED << sent, enabled, allow_from, running, stop_pc, close_tasks,
                    connections, session_map, pc, open, remote, objid, inbox,
                    outbox, received, close_code, pending, budget >>

\* the bind fails: except Exception logs and raises to the caller
BindFails ==
    /\ start_pc = "bind"
    /\ start_pc' = "raised"
    /\ UNCHANGED << sent, enabled, allow_from, running, listening, stop_pc,
                    close_tasks, connections, session_map, pc, open, remote,
                    objid, inbox, outbox, received, close_code, pending,
                    budget >>

\* asyncio.sleep(1) is over and `while self._running` finds the flag cleared:
\* the `async with` block is left, the server stops accepting and closes the
\* connections it has.
ServeExit ==
    /\ start_pc = "serve"
    /\ ~running
    /\ listening' = FALSE
    /\ open' = [c \in Conns |-> IF HandlerRunning(c) THEN FALSE ELSE open[c]]
    /\ start_pc' = "closing"
    /\ UNCHANGED << sent, enabled, allow_from, running, stop_pc, close_tasks,
                    connections, session_map, pc, remote, objid, inbox, outbox,
                    received, close_code, pending, budget >>

\* the server has waited for every handler: start() returns
StartReturn ==
    /\ start_pc = "closing"
    /\ \A c \in Conns : ~HandlerRunning(c)
    /\ start_pc' = "returned"
    /\ UNCHANGED << sent, enabled, allow_from, running, listening, stop_pc,
                    close_tasks, connections, session_map, pc, open, remote,
                    objid, inbox, outbox, received, close_code, pending,
                    budget >>

\* ------------------------------------------------------------------- spec
Next ==
    \/ \E c \in Conns, ra \in RemoteAddrs, wsid \in ObjIds, up \in BOOLEAN :
            HandleConnection(c, ra, wsid, up)
    \/ \E c \in Conns, raw \in RawMessages : ClientSend(c, raw)
    \/ \E c \in Conns : Disconnect(c)
    \/ \E c \in Conns : HandleIncoming(c)
    \/ \E c \in Conns : LoopExit(c)
    \/ \E c \in Conns : Unwind(c)
    \/ \E c \in Conns : Cancel(c)
    \/ \E d \in pending : PipelineReply(d)
    \/ \E chat_id \in SessionIds : RouterSend(chat_id)
    \/ \E raised \in SUBSET Conns : StopCall(raised)
    \/ StopFinish
    \/ StartCall
    \/ StartWhileServing
    \/ BindOk
    \/ BindFails
    \/ ServeExit
    \/ StartReturn

Spec == Init /\ [][Next]_vars

\* The event loop runs every task that is ready: a sleep that is over, a
\* gather() that is done, a handler whose connection closed or whose
\* transmission failed, and the server waiting for its handlers.
Fairness ==
    /\ WF_vars(ServeExit)
    /\ WF_vars(StartReturn)
    /\ WF_vars(StopFinish)
    /\ \A c \in Conns : WF_vars(LoopExit(c)) /\ WF_vars(Unwind(c))

LiveSpec == Spec /\ Fairness

\* ================================================================= claims
\* the connection objects whose handler got past the allowlist test
Admitted == { c \in Conns : pc[c] # "new"
                /\ ~(allow_from # {} /\ ClientIp(remote[c]) \notin allow_from) }

\* the positions of outbox[c] that hold an envelope of the given type
Sent_(c, type) == { k \in 1..Len(outbox[c]) : outbox[c][k].type = type }

\* C1: a connection from an address outside a configured, non-empty allowlist
\* is closed with the policy-violation code, no envelope is ever transmitted
\* on it and it is in neither the active-connection set nor the session map.
C1_RejectedNeverRegistered ==
    \A c \in Conns :
        ( pc[c] # "new" /\ allow_from # {}
          /\ ClientIp(remote[c]) \notin allow_from )
        => /\ close_code[c] = PolicyViolation
           /\ ~open[c]
           /\ pc[c] = "done"
           /\ outbox[c] = <<>>
           /\ c \notin connections
           /\ c \notin Keys(session_map)

\* C1 witness: a connection without a remote address was rejected by the
\* allowlist while another connection is registered.
C1_Witness ==
    /\ allow_from = {"ip1"}
    /\ \E c, d \in Conns :
          /\ remote[c] = "none" /\ pc[c] = "done"
          /\ close_code[c] = PolicyViolation
          /\ d \in connections /\ pc[d] = "recv"

\* C2 as claimed: every admitted connection has exactly one status envelope,
\* and it is the first envelope transmitted on the connection.
C2_ExactlyOneStatusFirst ==
    \A c \in Admitted :
        /\ Cardinality(Sent_(c, "status")) = 1
        /\ outbox[c][1].type = "status"

\* C2 amended: on an admitted connection at most one status envelope is
\* transmitted and nothing is transmitted before it; it is missing only when
\* the connection no longer carried frames when the handler sent it, and then
\* the handler ends without reading a frame or transmitting anything.
C2_StatusFirstAtMostOnce ==
    \A c \in Admitted :
        /\ Cardinality(Sent_(c, "status")) <= 1
        /\ outbox[c] # <<>> => /\ outbox[c][1].type = "status"
                               /\ Cardinality(Sent_(c, "status")) = 1
        /\ outbox[c] = <<>> => /\ pc[c] \in {"exc", "done"}
                               /\ received[c] = <<>>

\* C2 witness: after its status envelope a connection got a pong and an
\* agent_response from the router.
C2_Witness ==
    \E c \in Admitted :
        /\ Len(outbox[c]) >= 3
        /\ outbox[c][1].type = "status"
        /\ Sent_(c, "pong") # {}
        /\ Sent_(c, "agent_response") # {}

\* the frames of RawMessages, by what they are
BadJsonFrame == "{oops"
PingFrame == "{\"type\":\"ping\"}"
UserFrame == "{\"type\":\"user_message\",\"content\":\"hi\"}"
EmptyFrames == { "{\"type\":\"user_message\",\"content\":\"\"}",
                 "{\"type\":\"user_message\"}" }

\* the positions of outbox[c] holding an envelope of the given type that
\* frame i of connection c led to
Replies(c, i, type) ==
    { k \in Sent_(c, type) : outbox[c][k].cause = <<c, i>> }

\* this step, the receive loop of c read a frame
Reads(c) == Len(received'[c]) = Len(received[c]) + 1

\* the handler of c ended on the failed reply to its last frame
EndedAtFrame(c, i) ==
    /\ i = Len(received[c])
    /\ pc[c] \in {"exc", "done"}
    /\ ~open[c]

\* agent_response k of outbox[c] answers a user_message c read after frame i
AnswersLater(c, k, i) ==
    /\ outbox[c][k].type = "agent_response"
    /\ outbox[c][k].cause[1] = c
    /\ outbox[c][k].cause[2] > i

\* C3 as claimed: every ping the receive loop read has exactly one pong with
\* the connection's session identifier, transmitted before the agent_response
\* to any user_message read after the ping.
C3_EveryPingOnePong ==
    \A c \in Admitted : \A i \in 1..Len(received[c]) :
        received[c][i] = PingFrame
        => /\ Cardinality(Replies(c, i, "pong")) = 1
           /\ \A k \in Replies(c, i, "pong") :
                 outbox[c][k].session_id = SessionIdOf(c)
           /\ \A j \in 1..Len(outbox[c]) :
                 AnswersLater(c, j, i)
                 => \E k \in Replies(c, i, "pong") : k < j

\* C3 amended: a ping has at most one pong, with the connection's session
\* identifier and ahead of the agent_response to any user_message read after
\* the ping; the pong is missing only when the connection had stopped
\* carrying frames, and then the ping is the last frame the handler reads.
C3_PingOnePongWhileOpen ==
    \A c \in Admitted : \A i \in 1..Len(received[c]) :
        received[c][i] = PingFrame
        => /\ Cardinality(Replies(c, i, "pong")) <= 1
           /\ Replies(c, i, "pong") = {} => EndedAtFrame(c, i)
           /\ \A k \in Replies(c, i, "pong") :
                 outbox[c][k].session_id = SessionIdOf(c)
           /\ \A j \in 1..Len(outbox[c]) :
                 AnswersLater(c, j, i)
                 => \E k \in Replies(c, i, "pong") : k < j

\* C3 witness: a pong, and after it the agent_response to a user_message the
\* connection sent after the ping.
C3_Witness ==
    \E c \in Admitted : \E i \in 1..Len(received[c]) :
        /\ received[c][i] = PingFrame
        /\ \E k \in Replies(c, i, "pong"), j \in 1..Len(outbox[c]) :
              k < j /\ AnswersLater(c, j, i)

\* C4 as claimed: every frame that is not JSON the receive loop read has
\* exactly one error envelope.
C4_BadJsonOneError ==
    \A c \in Admitted : \A i \in 1..Len(received[c]) :
        received[c][i] = BadJsonFrame
        => Cardinality(Replies(c, i, "error")) = 1

\* the state part of C4 amended
C4_AtMostOneError ==
    \A c \in Admitted : \A i \in 1..Len(received[c]) :
        received[c][i] = BadJsonFrame
        => /\ Cardinality(Replies(c, i, "error")) <= 1
           /\ Replies(c, i, "error") = {} => EndedAtFrame(c, i)
           /\ \A k \in Replies(c, i, "error") :
                 outbox[c][k].content = "Invalid JSON format"

\* the step part of C4 amended
C4_HandlingBadJson ==
    \A c \in Conns :
        ( Reads(c) /\ Head(inbox[c]) = BadJsonFrame /\ open[c] )
        => /\ open'[c]
           /\ pc'[c] = "recv"
           /\ Len(outbox'[c]) = Len(outbox[c]) + 1
           /\ UNCHANGED << connections, session_map, pending >>

\* C4 amended: a frame that is not JSON, handled while the connection still
\* carries frames, elicits exactly one error envelope, leaves the connection
\* open, the active-connection set, the session map and the dispatch tasks
\* unchanged and the receive loop running; handled after the connection
\* stopped carrying frames it elicits nothing and is the last frame read.
C4_BadJsonWhileOpen ==
    []C4_AtMostOneError /\ [][C4_HandlingBadJson]_vars

\* C4 witness: after the error envelope of a frame that is not JSON, the
\* receive loop read a ping and answered it.
C4_Witness ==
    \E c \in Admitted :
        /\ Len(received[c]) = 2
        /\ received[c][1] = BadJsonFrame
        /\ Replies(c, 1, "error") # {}
        /\ Replies(c, 2, "pong") # {}
        /\ c \in connections

\* C5: handling a user_message whose content is empty or missing transmits
\* nothing, creates no dispatch task, leaves the active-connection set and the
\* session map unchanged, and leaves the connection open and its receive loop
\* running.
C5_EmptyContentIgnored ==
    [][ \A c \in Conns :
          ( Reads(c) /\ Head(inbox[c]) \in EmptyFrames )
          => /\ UNCHANGED << outbox, pending, connections, session_map, open >>
             /\ pc'[c] = "recv" ]_vars

\* C5 witness: an open connection has read a user_message without content
\* and one with empty content; it got its status envelope and nothing else.
C5_Witness ==
    \E c \in Admitted :
        /\ Len(received[c]) = 2
        /\ { received[c][1], received[c][2] } = EmptyFrames
        /\ open[c] /\ pc[c] = "recv" /\ c \in connections
        /\ Len(outbox[c]) = 1
        /\ pending = {}

\* C6: no two entries of the session map hold the same session identifier.
C6_SessionMapInjective ==
    \A i, j \in 1..Len(session_map) :
        i # j => /\ session_map[i][1] # session_map[j][1]
                 /\ session_map[i][2] # session_map[j][2]

\* C6 witness: two connections from one address are registered.
C6_Witness ==
    /\ Len(session_map) = 2
    /\ session_map[1][2][1] = session_map[2][2][1]

\* the two inclusions of C7 (a connection counts as open until its handler
\* has seen it close): every registered connection is an admitted connection
\* whose handler is running, and every admitted connection that carries
\* frames and has a running receive loop is registered.
C7_RegistryIsOpenConnections ==
    /\ Keys(session_map) \subseteq { c \in Admitted : HandlerRunning(c) }
    /\ { c \in Admitted : open[c] /\ pc[c] = "recv" } \subseteq Keys(session_map)

\* self._session_map[ws]
Get(m, k) == LET i == CHOOSE j \in 1..Len(m) : m[j][1] = k IN m[i][2]

\* this step is a call of send()
SendStep == sent'.n # sent.n

\* C8: send(msg) for a session identifier no entry of the session map holds
\* returns at the warning, transmits nothing and leaves the active-connection
\* set and the session map as they are.
C8_SendToUnknownSession ==
    [][ ( SendStep
          /\ \A i \in 1..Len(session_map) : session_map[i][2] # sent'.chat_id )
        => /\ sent'.outcome = "no_connection"
           /\ UNCHANGED << outbox, connections, session_map >> ]_vars

\* C8 witness: send() returned at the warning for the session identifier of
\* a connection that has gone, while another connection is registered.
C8_Witness ==
    /\ sent.outcome = "no_connection"
    /\ \E c \in Admitted : pc[c] = "done" /\ SessionIdOf(c) = sent.chat_id
    /\ connections # {}

\* C9: a call of send(msg) transmits on one connection at most, an
\* agent_response carrying msg.chat_id, and that connection is registered
\* with the session identifier msg.chat_id.
C9_SendReachesOnlyItsSession ==
    [][ SendStep
        => /\ \A c, d \in Conns :
                 outbox'[c] # outbox[c] /\ outbox'[d] # outbox[d] => c = d
           /\ \A c \in Conns :
                 outbox'[c] # outbox[c]
                 => /\ c \in connections
                    /\ c \in Keys(session_map)
                    /\ Get(session_map, c) = sent'.chat_id
                    /\ Len(outbox'[c]) = Len(outbox[c]) + 1
                    /\ SubSeq(outbox'[c], 1, Len(outbox[c])) = outbox[c]
                    /\ outbox'[c][Len(outbox'[c])].type = "agent_response"
                    /\ outbox'[c][Len(outbox'[c])].session_id = sent'.chat_id
      ]_vars

\* C9 witness: with two connections from one address registered, send()
\* transmitted to the younger one.
C9_Witness ==
    /\ Len(session_map) = 2
    /\ session_map[1][2][1] = session_map[2][2][1]
    /\ sent.outcome = "sent"
    /\ sent.target = session_map[2][1]
    /\ Sent_(session_map[1][1], "agent_response") = {}

\* the state part of C10: a handler that has started and not ended reads
\* the next queued frame whatever dispatch tasks are pending
C10_LoopReadsOn ==
    \A c \in Conns :
        ( pc[c] \notin {"new", "exc", "done"} /\ inbox[c] # <<>> )
        => ENABLED HandleIncoming(c)

\* the step part of C10: handling a user_message creates the dispatch task
\* and returns to the receive loop, and a ping handled on a connection that
\* carries frames gets its pong in that step although dispatch tasks of the
\* connection are pending
C10_Handling ==
    \A c \in Conns :
        /\ ( Reads(c) /\ Head(inbox[c]) = UserFrame )
           => /\ pc'[c] = "recv"
              /\ \E d \in pending' \ pending :
                    d.conn = c /\ d.seq = Len(received'[c])
        /\ ( Reads(c) /\ Head(inbox[c]) = PingFrame /\ open[c]
             /\ \E d \in pending : d.conn = c )
           => /\ pc'[c] = "recv"
              /\ pending' = pending
              /\ Len(outbox'[c]) = Len(outbox[c]) + 1
              /\ outbox'[c][Len(outbox'[c])].type = "pong"

\* C10: dispatching a user_message does not block the receive loop: with
\* any dispatch tasks of a connection pending, its receive loop reads the
\* frames that follow and answers a ping without a pending task finishing.
C10_DispatchDoesNotBlock ==
    []C10_LoopReadsOn /\ [][C10_Handling]_vars

\* C10 witness: a ping read after a user_message has its pong while the
\* dispatch task of that user_message is still pending.
C10_Witness ==
    \E c \in Admitted : \E d \in pending :
        /\ d.conn = c
        /\ \E i \in 1..Len(received[c]) :
              /\ i > d.seq
              /\ received[c][i] = PingFrame
              /\ Replies(c, i, "pong") # {}

\* C11 as claimed: once the bind of start() has failed and the failure was
\* raised to the caller, the channel is not marked as running.
C11_BindFailureLeavesStopped ==
    start_pc = "raised" => ~running

\* the step part of C12
C12_Stopping ==
    /\ ( stop_pc # "gather" /\ stop_pc' = "gather" )
       => /\ { t.ws : t \in close_tasks' } = connections
          /\ \A c \in connections : ~open'[c]
    /\ ( stop_pc # "gather" /\ connections = {}
         /\ \E raised \in SUBSET Conns : StopCall(raised) )
       => /\ stop_pc' = "returned"
          /\ connections' = {} /\ session_map' = <<>>
    /\ ( stop_pc = "gather" /\ stop_pc' # "gather" )
       => /\ stop_pc' = "returned"
          /\ connections' = {} /\ session_map' = <<>>

\* C12: a call of stop() starts the close of every connection that is in the
\* active-connection set when it is called, whichever of the closes raise;
\* no call of stop() raises; and at the step stop() returns, the
\* active-connection set and the session map are empty.
C12_StopClosesAllAndClears ==
    [](stop_pc # "raised") /\ [][C12_Stopping]_vars

\* C12 witness: stop() waits in gather() for the closes of two connections,
\* one of which raises; neither connection carries frames any more and a
\* handler has not yet seen its connection close.
C12_Witness ==
    /\ stop_pc = "gather"
    /\ \E t, u \in close_tasks :
          /\ t.raises /\ ~u.raises
          /\ ~open[t.ws] /\ ~open[u.ws]
          /\ pc[t.ws] = "recv"

\* C13 as claimed: once stop() has returned and the channel is marked as not
\* running, no new connection is registered or sent a status envelope (a call
\* of start() marks the channel as running again).
C13_NoAdmissionAfterStop ==
    [][ ( stop_pc = "returned" /\ ~running )
        => \A c \in Conns :
              pc[c] = "new" => /\ c \notin connections'
                               /\ c \notin Keys(session_map')
                               /\ outbox'[c] = <<>> ]_vars

\* the frame of RawMessages that decodes to a value without .get()
FaultFrame == "[]"

\* C14 as claimed: every frame the receive loop read whose handling raised
\* an exception other than a decode failure has exactly one error envelope.
C14_FaultOneError ==
    \A c \in Admitted : \A i \in 1..Len(received[c]) :
        received[c][i] = FaultFrame
        => Cardinality(Replies(c, i, "error")) = 1

\* the state part of C14 amended
C14_AtMostOneFaultError ==
    \A c \in Admitted : \A i \in 1..Len(received[c]) :
        received[c][i] = FaultFrame
        => /\ Cardinality(Replies(c, i, "error")) <= 1
           /\ Replies(c, i, "error") = {} => EndedAtFrame(c, i)
           /\ \A k \in Replies(c, i, "error") :
                 /\ outbox[c][k].content = "AttributeError"
                 /\ outbox[c][k].session_id = SessionIdOf(c)

\* the step part of C14 amended
C14_HandlingFault ==
    \A c \in Conns :
        ( Reads(c) /\ Head(inbox[c]) = FaultFrame )
        => IF open[c]
           THEN /\ open'[c]
                /\ pc'[c] = "recv"
                /\ Len(outbox'[c]) = Len(outbox[c]) + 1
                /\ outbox'[c][Len(outbox'[c])].type = "error"
                /\ UNCHANGED << connections, session_map, pending >>
           ELSE /\ pc'[c] = "exc"
                /\ UNCHANGED << outbox, connections, session_map, pending >>

\* C14 amended: an exception other than a decode failure raised while
\* handling a frame on a connection that still carries frames is reported
\* with exactly one error envelope holding its description; the connection
\* stays open, the active-connection set and the session map are unchanged
\* and the receive loop goes on.  On a connection that no longer carries
\* frames the error envelope cannot be transmitted: nothing is sent and the
\* exception ends the receive loop.
C14_FaultWhileOpen ==
    []C14_AtMostOneFaultError /\ [][C14_HandlingFault]_vars

\* C14 witness: after the error envelope of a frame whose handling raised,
\* the receive loop read a ping and answered it.
C14_Witness ==
    \E c \in Admitted :
        /\ Len(received[c]) = 2
        /\ received[c][1] = FaultFrame
        /\ Replies(c, 1, "error") # {}
        /\ Replies(c, 2, "pong") # {}
        /\ c \in connections /\ open[c]

\* C15: a call of send() whose transmission fails (its session identifier is
\* registered to a connection of the active-connection set that no longer
\* carries frames) returns after the one failed attempt, transmits nothing
\* and leaves the active-connection set and the session map unchanged.
C15_SendFailureIsSwallowed ==
    [][ ( SendStep
          /\ \E c \in connections :
                /\ c \in Keys(session_map)
                /\ Get(session_map, c) = sent'.chat_id
                /\ ~open[c] )
        => /\ sent'.outcome = "send_error"
           /\ sent'.tries = 1
           /\ UNCHANGED << outbox, connections, session_map, pc, open >> ]_vars

\* C15 witness: the transmission of send() failed on a connection that is
\* still registered, while another connection is registered and open.
C15_Witness ==
    /\ sent.outcome = "send_error"
    /\ sent.target \in connections
    /\ ~open[sent.target]
    /\ \E d \in connections : d # sent.target /\ open[d]

\* the state part of C16
C16_EndedIsDeregistered ==
    \A c \in Conns :
        pc[c] = "done" => c \notin connections /\ c \notin Keys(session_map)

\* the step part of C16
C16_Ending ==
    \A c \in Conns :
        ( HandlerRunning(c) /\ pc'[c] = "done" )
        => /\ connections' = connections \ {c}
           /\ Keys(session_map') = Keys(session_map) \ {c}
           /\ \A d \in Keys(session_map') :
                 Get(session_map', d) = Get(session_map, d)
           /\ ( c \notin connections /\ c \notin Keys(session_map) )
              => UNCHANGED << connections, session_map >>

\* C16: a connection whose handler has ended, on whichever path (the receive
\* loop ending on a closed connection, a failed transmission of the status
\* envelope or of a reply, cancellation), is in neither the active-connection
\* set nor the session map; the step that ends a handler removes that
\* connection's entries and no other, and changes nothing when stop() has
\* cleared them already.
C16_HandlerExitDeregisters ==
    []C16_EndedIsDeregistered /\ [][C16_Ending]_vars

\* C16 witness: stop() has returned, the handler of a connection that got
\* its status envelope has ended, and another connection, admitted before
\* start() left its loop, is still registered.
C16_Witness ==
    /\ stop_pc = "returned" /\ ~running
    /\ \E c, d \in Admitted :
          /\ c # d
          /\ pc[c] = "done" /\ outbox[c] # <<>>
          /\ pc[d] = "recv"
          /\ d \in connections /\ d \in Keys(session_map)

\* the frames of connection c in the order they arrived, read or still queued
Arrived(c) == received[c] \o inbox[c]

\* the state part of C17: the pong and error envelopes of a connection are in
\* the order of the frames that led to them, each led to by a frame of its
\* kind; a pending dispatch task was created for a user_message; and any
\* pending dispatch task may be the next to complete
C17_RepliesInOrder ==
    /\ \A c \in Admitted : \A k, j \in 1..Len(outbox[c]) :
          ( k < j /\ outbox[c][k].type \in {"pong", "error"}
                  /\ outbox[c][j].type \in {"pong", "error"} )
          => /\ outbox[c][k].cause[1] = c /\ outbox[c][j].cause[1] = c
             /\ outbox[c][k].cause[2] < outbox[c][j].cause[2]
    /\ \A c \in Admitted : \A k \in 1..Len(outbox[c]) :
          /\ outbox[c][k].type = "pong"
             => received[c][outbox[c][k].cause[2]] = PingFrame
          /\ outbox[c][k].type = "error"
             => received[c][outbox[c][k].cause[2]] \in {BadJsonFrame, FaultFrame}
    /\ \A d \in pending :
          /\ d.seq <= Len(received[d.conn])
          /\ received[d.conn][d.seq] = UserFrame
          /\ ENABLED PipelineReply(d)

\* the step part of C17: the receive loop reads the frame that arrived
\* first among those not yet read, handles it in that step (its reply, if
\* any, is the last envelope of the connection and its dispatch task is
\* younger than every pending one of the connection), and a frame that
\* arrives queues behind the others
C17_HandlingInOrder ==
    \A c \in Conns :
        /\ Reads(c)
           => /\ received'[c] \o inbox'[c] = Arrived(c)
              /\ \A k \in Len(outbox[c]) + 1 .. Len(outbox'[c]) :
                    outbox'[c][k].cause = << c, Len(received'[c]) >>
              /\ \A d \in pending' \ pending :
                    /\ d.conn = c /\ d.seq = Len(received'[c])
                    /\ \A e \in pending : e.conn = c => e.seq < d.seq
        /\ ( ~Reads(c) /\ HandlerRunning(c) /\ pc'[c] = pc[c]
             /\ inbox'[c] # inbox[c] )
           => /\ received'[c] = received[c]
              /\ SubSeq(inbox'[c], 1, Len(inbox[c])) = inbox[c]

\* C17: on one connection the frames are handled one at a time in the order
\* they arrived, so pong and error envelopes are transmitted in the order of
\* the frames that led to them and dispatch tasks are created in that order;
\* the dispatch tasks may complete in any order.
C17_InArrivalOrder ==
    []C17_RepliesInOrder /\ [][C17_HandlingInOrder]_vars

\* C17 witness: a connection got the agent_response to its second
\* user_message before the one to its first.
C17_Witness ==
    \E c \in Admitted : \E k, j \in 1..Len(outbox[c]) :
        /\ k < j
        /\ outbox[c][k].type = "agent_response"
        /\ outbox[c][j].type = "agent_response"
        /\ outbox[c][k].cause[1] = c /\ outbox[c][j].cause[1] = c
        /\ outbox[c][k].cause[2] > outbox[c][j].cause[2]

\* C18: in every state in which another task can run, the connections that
\* are keys of the session map are exactly the active-connection set, one
\* entry each.
C18_MapKeysAreConnections ==
    /\ Keys(session_map) = connections
    /\ Len(session_map) = Cardinality(connections)

\* C18 witness: of two connections that were registered, one has been
\* deregistered by its handler and the other is registered, and stop() was
\* called after that (it waits in gather()).
C18_Witness ==
    /\ stop_pc = "gather"
    /\ \E c, d \in Admitted :
          /\ pc[c] = "done" /\ outbox[c] # <<>>
          /\ \A t \in close_tasks : t.ws # c
          /\ connections = {d}
          /\ Len(session_map) = 1

\* C19 as claimed: when stop() has been called while start() is serving,
\* start() eventually returns with the listening socket closed, every handler
\* ended and the registry empty.
C19_StopLeadsToStopped ==
    ( start_pc = "serve" /\ ~running )
    ~> ( /\ start_pc = "returned" /\ ~listening
         /\ \A c \in Conns : ~HandlerRunning(c)
         /\ connections = {} /\ session_map = <<>> )

\* C20 as claimed: the agent_response to a user_message is transmitted, if at
\* all, on the connection the user_message was read from.
C20_ReplyOnlyToItsConnection ==
    \A c \in Conns : \A k \in 1..Len(outbox[c]) :
        ( outbox[c][k].type = "agent_response"
          /\ outbox[c][k].cause[1] # None )
        => outbox[c][k].cause[1] = c

====
